---- MODULE Spec2Model ----
(***************************************************************************)
(* Model of app.py, the Streamlit interview-practice chatbot.              *)
(*                                                                         *)
(* Streamlit re-executes the whole script on every user interaction, with  *)
(* st.session_state as the only memory between two executions.  A state of *)
(* the model is the state between two script runs; an action is one user   *)
(* interaction: the on_click callback (if any) followed by the complete    *)
(* script run it triggers, up to the end of the script, an st.stop() or an *)
(* uncaught exception.                                                     *)
(*                                                                         *)
(* Texts are sequences of tokens (words, blanks, punctuation).  Session    *)
(* keys that only hold widget values (level, position, company, the        *)
(* selectors) are left out: no modelled statement reads them apart from    *)
(* the wording of the system prompt.  Money is counted in 1/1000 USD.      *)
(***************************************************************************)
EXTENDS Integers, Sequences, FiniteSets, TLC

\* ------------------------------------------------------------------------
\* Bounds of the model
\* ------------------------------------------------------------------------
MaxTime == 16
MaxTranscript == 11
MaxFeedbackCalls == 2
MaxSessions == 2
MaxFailedTurns == 1

\* ------------------------------------------------------------------------
\* Configuration constants of app.py
\* ------------------------------------------------------------------------
MAX_INTERVIEWS_PER_USER == 10
REQUEST_COOLDOWN_SECONDS == 3
MAX_TOTAL_TOKENS == 50000
\* 0.03 USD and 0.06 USD per 1000 tokens, in 1/1000 USD
GPT4_COST_PER_1K_INPUT == 30
GPT4_COST_PER_1K_OUTPUT == 60
\* st.chat_input(max_chars=1000) and validate_input(prompt, max_length=1000)
MaxAnswerChars == 1000
\* "if st.session_state.user_message_count < 5" / "< 4"
MaxUserTurns == 5
MaxAssistantTurns == 4
\* last_request_time starts at now - timedelta(seconds=10)
InitialRequestAge == 10

VARIABLES
    session_state,    \* st.session_state: a function from keys to values
    store,            \* saved_conversations/: file name (time stamp) -> content
    now,              \* datetime.now(), in whole seconds
    app_password,     \* st.secrets: "none" when APP_PASSWORD is not configured
    session,          \* number of the browser session (a reload starts a new one)
    chat_calls,       \* history: ChatService calls made for user turns, this session
    feedback_calls,   \* history: evaluation calls made, this session
    autosave_calls,   \* history: save_conversation calls at interview completion
    failed_turns      \* history: user turns whose ChatService call raised

vars == <<session_state, store, now, app_password, session,
          chat_calls, feedback_calls, autosave_calls, failed_turns>>

\* ------------------------------------------------------------------------
\* Texts
\* ------------------------------------------------------------------------
\* Number of characters of a token; "x1000" stands for a run of 1000 letters.
TokLen(tok) ==
    CASE tok = "x1000" -> 1000
      [] tok = " " -> 1
      [] tok = ":" -> 1
      [] tok = "<|" -> 2
      [] tok = "|>" -> 2
      [] tok = "hi" -> 2
      [] tok = "Ann" -> 3
      [] tok = "all" -> 3
      [] tok = "system" -> 6
      [] tok = "System" -> 6
      [] tok = "ignore" -> 6
      [] tok = "IGNORE" -> 6
      [] tok = "instructions" -> 12
      [] OTHER -> 1

RECURSIVE CharLen(_)
CharLen(text) ==
    IF text = <<>> THEN 0 ELSE TokLen(Head(text)) + CharLen(Tail(text))

\* str.lower()
LowerTok(tok) ==
    CASE tok = "System" -> "system"
      [] tok = "IGNORE" -> "ignore"
      [] OTHER -> tok

Lower(text) == [i \in 1..Len(text) |-> LowerTok(text[i])]

RECURSIVE LStrip(_)
LStrip(text) ==
    IF text # <<>> /\ Head(text) = " " THEN LStrip(Tail(text)) ELSE text

RECURSIVE RStrip(_)
RStrip(text) ==
    IF text # <<>> /\ text[Len(text)] = " "
    THEN RStrip(SubSeq(text, 1, Len(text) - 1))
    ELSE text

\* str.strip()
Strip(text) == RStrip(LStrip(text))

\* First position >= i of text that holds no blank (Len(text) + 1 if none): "\s*"
RECURSIVE SkipSpaces(_, _)
SkipSpaces(text, i) ==
    IF i <= Len(text) /\ text[i] = " " THEN SkipSpaces(text, i + 1) ELSE i

\* r"ignore\s+(previous|all|above)\s+instructions?"
MatchesIgnoreInstructions(text) ==
    \E i \in 1..Len(text) :
        /\ text[i] = "ignore"
        /\ LET j == SkipSpaces(text, i + 1)
           IN  /\ j > i + 1
               /\ j <= Len(text)
               /\ text[j] \in {"previous", "all", "above"}
               /\ LET k == SkipSpaces(text, j + 1)
                  IN  /\ k > j + 1
                      /\ k <= Len(text)
                      /\ text[k] \in {"instruction", "instructions"}

\* r"system\s*:" and r"assistant\s*:"
MatchesRoleLabel(text, label) ==
    \E i \in 1..Len(text) :
        /\ text[i] = label
        /\ LET j == SkipSpaces(text, i + 1)
           IN  j <= Len(text) /\ text[j] = ":"

\* r"<\|.*?\|>"
MatchesDelimiter(text) ==
    \E i \in 1..Len(text) : \E j \in (i + 1)..Len(text) :
        text[i] = "<|" /\ text[j] = "|>"

\* validate_input(text, max_length): (is_valid, sanitized_text, error_message)
validate_input(text, max_length) ==
    IF text = <<>> \/ Strip(text) = <<>>
    THEN [is_valid |-> FALSE, sanitized |-> <<>>, error |-> "Input cannot be empty"]
    ELSE IF CharLen(text) > max_length
    THEN [is_valid |-> FALSE, sanitized |-> <<>>, error |-> "Input too long"]
    ELSE IF \/ MatchesIgnoreInstructions(Lower(text))
            \/ MatchesRoleLabel(Lower(text), "system")
            \/ MatchesRoleLabel(Lower(text), "assistant")
            \/ MatchesDelimiter(Lower(text))
    THEN [is_valid |-> FALSE, sanitized |-> <<>>,
          error |-> "Input contains suspicious content"]
    ELSE [is_valid |-> TRUE, sanitized |-> Strip(text), error |-> ""]

\* ------------------------------------------------------------------------
\* Inputs
\* ------------------------------------------------------------------------
\* What st.chat_input(max_chars=1000) can deliver; <<>> is "nothing submitted".
NoPrompt == <<>>
Prompts ==
    { <<" ">>,
      <<"hi">>,
      <<" ", "hi", " ">>,
      <<"System", " ", ":">>,
      <<"IGNORE", " ", "all", " ", "instructions">>,
      <<"<|", "hi", "|>">> }

\* What the name / experience / skills widgets can hold
ProfileTexts == { <<>>, <<" ">>, <<"Ann">> }
ProfileFields == {"name", "experience", "skills"}

\* response.usage of the completion API
Usages == { [prompt_tokens |-> 1000, completion_tokens |-> 500],
            [prompt_tokens |-> 20000, completion_tokens |-> 5000] }

\* Outcome of client.chat.completions.create: the call raises (ok = FALSE) or
\* returns choices[0].message.content and usage.
ServiceError ==
    [ok |-> FALSE, content |-> <<>>, prompt_tokens |-> 0, completion_tokens |-> 0]
Completions(contents) ==
    { [ok |-> TRUE, content |-> c, prompt_tokens |-> u.prompt_tokens,
       completion_tokens |-> u.completion_tokens] : c \in contents, u \in Usages }
ChatResponses == {ServiceError} \cup Completions({ <<"question">> })
FeedbackResponses == {ServiceError} \cup Completions({ <<"score7">>, <<"score8">> })

\* Outcome of open(save_path, 'w'): "ok", or "oserror" when it raises OSError
IoOutcomes == {"ok", "oserror"}
Passwords == {"pw", "bad"}

\* ------------------------------------------------------------------------
\* st.session_state
\* ------------------------------------------------------------------------
Has(s, key) == key \in DOMAIN s
Put(s, key, val) == [k \in DOMAIN s \cup {key} |-> IF k = key THEN val ELSE s[k]]
\* if key not in st.session_state: st.session_state[key] = val
SetDefault(s, key, val) == IF Has(s, key) THEN s ELSE Put(s, key, val)

\* A time stamp held in the session state: the datetime object that lines 50
\* and 531 store, or the text json.dumps(..., default=str) makes of it (line
\* 368), which is what a record read back by json.load holds.
DateTime(t) == [datetime |-> TRUE, t |-> t]
TimeText(t) == [datetime |-> FALSE, t |-> t]

\* Lines 37-58, executed by the first script run of a browser session at time t
InitialSessionState(t) ==
    [ setup_complete     |-> FALSE,
      user_message_count |-> 0,
      feedback_shown     |-> FALSE,
      messages           |-> <<>>,
      chat_complete      |-> FALSE,
      last_request_time  |-> DateTime(t - InitialRequestAge),
      total_interviews   |-> 0,
      total_tokens_used  |-> 0,
      estimated_cost     |-> 0,
      authenticated      |-> FALSE ]

CountRole(msgs, role) == Cardinality({i \in 1..Len(msgs) : msgs[i].role = role})

\* ------------------------------------------------------------------------
\* Functions of app.py
\* ------------------------------------------------------------------------
\* Variant of check_rate_limit whose window is one second short
check_rate_limit_OffByOne(s, t) ==
    LET remaining_wait == (REQUEST_COOLDOWN_SECONDS - 1) - (t - s.last_request_time.t)
    IN  IF remaining_wait > 0
        THEN [allowed |-> FALSE, wait |-> remaining_wait]
        ELSE [allowed |-> TRUE, wait |-> 0]

\* check_rate_limit(): (is_allowed, wait_time_seconds)
check_rate_limit(s, t) ==
    LET remaining_wait == REQUEST_COOLDOWN_SECONDS - (t - s.last_request_time.t)
    IN  IF remaining_wait > 0
        THEN [allowed |-> FALSE, wait |-> remaining_wait]
        ELSE [allowed |-> TRUE, wait |-> 0]

\* Variant of check_usage_quota that lets the limit itself pass (">" for ">=")
check_usage_quota_Strict(s) ==
    IF s.total_interviews > MAX_INTERVIEWS_PER_USER
    THEN [allowed |-> FALSE, reason |-> "Maximum interviews reached"]
    ELSE IF s.total_tokens_used > MAX_TOTAL_TOKENS
    THEN [allowed |-> FALSE, reason |-> "Token limit reached"]
    ELSE [allowed |-> TRUE, reason |-> ""]

\* check_usage_quota(): (is_allowed, reason)
check_usage_quota(s) ==
    IF s.total_interviews >= MAX_INTERVIEWS_PER_USER
    THEN [allowed |-> FALSE, reason |-> "Maximum interviews reached"]
    ELSE IF s.total_tokens_used >= MAX_TOTAL_TOKENS
    THEN [allowed |-> FALSE, reason |-> "Token limit reached"]
    ELSE [allowed |-> TRUE, reason |-> ""]

\* Variant of update_usage_metrics that assigns where the code accumulates
update_usage_metrics_Assign(s, resp) ==
    LET input_cost == (resp.prompt_tokens * GPT4_COST_PER_1K_INPUT) \div 1000
        output_cost == (resp.completion_tokens * GPT4_COST_PER_1K_OUTPUT) \div 1000
    IN  [s EXCEPT !.total_tokens_used = resp.prompt_tokens + resp.completion_tokens,
                  !.estimated_cost = input_cost + output_cost]

\* update_usage_metrics(api_response)
update_usage_metrics(s, resp) ==
    LET input_cost == (resp.prompt_tokens * GPT4_COST_PER_1K_INPUT) \div 1000
        output_cost == (resp.completion_tokens * GPT4_COST_PER_1K_OUTPUT) \div 1000
    IN  [s EXCEPT !.total_tokens_used = @ + (resp.prompt_tokens + resp.completion_tokens),
                  !.estimated_cost = @ + (input_cost + output_cost)]

\* complete_setup() and show_feedback(), the on_click callbacks
complete_setup(s) == [s EXCEPT !.setup_complete = TRUE]
show_feedback(s) == [s EXCEPT !.feedback_shown = TRUE]

\* json.dump(conv_data, f) has no default= handler: the datetime object that
\* st.session_state.last_request_time holds (lines 50 and 531) makes it raise
\* TypeError.
IsJsonSerializable(conv_data) ==
    Has(conv_data, "last_request_time") => ~conv_data.last_request_time.datetime

\* Content of a file whose json.dump was cut short by the TypeError: the
\* text written so far, which json.load rejects.
PartialJson == [partial |-> TRUE]
IsValidJson(content) == content # PartialJson

\* File name f"interview_{timestamp}.json" with timestamp = %Y%m%d_%H%M%S
FileName(t) == t

\* save_conversation(conv_data): the store afterwards and the exception raised
save_conversation(files, conv_data, t, io) ==
    IF io = "oserror"
    THEN [store |-> files, raised |-> "OSError"]
    ELSE IF IsJsonSerializable(conv_data)
    THEN [store |-> [f \in DOMAIN files \cup {FileName(t)} |->
                        IF f = FileName(t) THEN conv_data ELSE files[f]],
          raised |-> "none"]
    ELSE [store |-> [f \in DOMAIN files \cup {FileName(t)} |->
                        IF f = FileName(t) THEN PartialJson ELSE files[f]],
          raised |-> "TypeError"]

\* get_saved_conversations(): the *.json files of the directory
get_saved_conversations(files) == DOMAIN files

\* ------------------------------------------------------------------------
\* One script run.  A run threads a record r through the blocks of the
\* script: r.ss is st.session_state, r.store the directory, r.halted tells
\* that the run ended early (st.stop() or an uncaught exception); the other
\* fields are the history counters.
\* ------------------------------------------------------------------------
RunStart ==
    [ ss |-> session_state, store |-> store, halted |-> FALSE,
      chat_calls |-> chat_calls, feedback_calls |-> feedback_calls,
      autosave_calls |-> autosave_calls, failed_turns |-> failed_turns ]

\* The system prompt built from the profile (lines 498-507)
SystemMessage(s) ==
    [ role |-> "system",
      content |-> <<"HR">> \o s.name \o s.experience \o s.skills ]

\* "if not st.session_state.setup_complete:" block, lines 378-478.  edit is
\* the widget the user changed, <<field, text>>, or <<>>.  The Start
\* Interview button of line 475 is not part of it: its callback has set
\* setup_complete before the run, so the run that follows a click never
\* executes this block and never sees the button return True.
SetupBlock(r, edit) ==
    IF r.halted \/ r.ss.setup_complete THEN r
    ELSE
      LET s0 == SetDefault(SetDefault(SetDefault(r.ss, "name", <<>>),
                                      "experience", <<>>), "skills", <<>>)
          s1 == IF edit = <<>> THEN s0 ELSE Put(s0, edit[1], edit[2])
      IN  [r EXCEPT !.ss = s1, !.halted = ~check_usage_quota(s1).allowed]

\* Variant of ChatTurn that asks ChatService on every turn, the fifth included
ChatTurn_AnswerFifth(r, t, prompt, resp) ==
    IF r.ss.user_message_count >= MaxUserTurns \/ prompt = NoPrompt THEN r
    ELSE
      LET v == validate_input(prompt, MaxAnswerChars)
          rate == check_rate_limit(r.ss, t)
          s1 == [r.ss EXCEPT !.last_request_time = DateTime(t),
                             !.messages = Append(@, [role |-> "user",
                                                      content |-> v.sanitized])]
      IN  IF ~v.is_valid THEN [r EXCEPT !.halted = TRUE]
          ELSE IF ~r.ss.last_request_time.datetime THEN [r EXCEPT !.halted = TRUE]
          ELSE IF ~rate.allowed THEN [r EXCEPT !.halted = TRUE]
          ELSE IF ~resp.ok
          THEN [r EXCEPT !.ss = s1, !.halted = TRUE,
                         !.chat_calls = @ + 1, !.failed_turns = @ + 1]
          ELSE
            LET s2 == update_usage_metrics(s1, resp)
                s3 == [s2 EXCEPT !.messages = Append(@, [role |-> "assistant",
                                                          content |-> resp.content]),
                                 !.user_message_count = @ + 1]
            IN  [r EXCEPT !.ss = s3, !.chat_calls = @ + 1]

\* Variant of ChatTurn that stamps last_request_time before the rate check
ChatTurn_StampFirst(r, t, prompt, resp) ==
    IF r.ss.user_message_count >= MaxUserTurns \/ prompt = NoPrompt THEN r
    ELSE
      LET v == validate_input(prompt, MaxAnswerChars)
          rate == check_rate_limit(r.ss, t)
          s0 == [r.ss EXCEPT !.last_request_time = DateTime(t)]
          s1 == [s0 EXCEPT !.messages = Append(@, [role |-> "user",
                                                    content |-> v.sanitized])]
      IN  IF ~v.is_valid THEN [r EXCEPT !.halted = TRUE]
          ELSE IF ~r.ss.last_request_time.datetime THEN [r EXCEPT !.halted = TRUE]
          ELSE IF ~rate.allowed THEN [r EXCEPT !.ss = s0, !.halted = TRUE]
          ELSE IF r.ss.user_message_count >= MaxAssistantTurns
          THEN [r EXCEPT !.ss = [s1 EXCEPT !.user_message_count = @ + 1]]
          ELSE IF ~resp.ok
          THEN [r EXCEPT !.ss = s1, !.halted = TRUE,
                         !.chat_calls = @ + 1, !.failed_turns = @ + 1]
          ELSE
            LET s2 == update_usage_metrics(s1, resp)
                s3 == [s2 EXCEPT !.messages = Append(@, [role |-> "assistant",
                                                          content |-> resp.content]),
                                 !.user_message_count = @ + 1]
            IN  [r EXCEPT !.ss = s3, !.chat_calls = @ + 1]

\* Variant of ChatTurn that also asks check_usage_quota before a turn
ChatTurn_QuotaGate(r, t, prompt, resp) ==
    IF r.ss.user_message_count >= MaxUserTurns \/ prompt = NoPrompt THEN r
    ELSE
      LET v == validate_input(prompt, MaxAnswerChars)
          rate == check_rate_limit(r.ss, t)
          s1 == [r.ss EXCEPT !.last_request_time = DateTime(t),
                             !.messages = Append(@, [role |-> "user",
                                                      content |-> v.sanitized])]
      IN  IF ~v.is_valid THEN [r EXCEPT !.halted = TRUE]
          ELSE IF ~r.ss.last_request_time.datetime THEN [r EXCEPT !.halted = TRUE]
          ELSE IF ~rate.allowed THEN [r EXCEPT !.halted = TRUE]
          ELSE IF ~check_usage_quota(r.ss).allowed THEN [r EXCEPT !.halted = TRUE]
          ELSE IF r.ss.user_message_count >= MaxAssistantTurns
          THEN [r EXCEPT !.ss = [s1 EXCEPT !.user_message_count = @ + 1]]
          ELSE IF ~resp.ok
          THEN [r EXCEPT !.ss = s1, !.halted = TRUE,
                         !.chat_calls = @ + 1, !.failed_turns = @ + 1]
          ELSE
            LET s2 == update_usage_metrics(s1, resp)
                s3 == [s2 EXCEPT !.messages = Append(@, [role |-> "assistant",
                                                          content |-> resp.content]),
                                 !.user_message_count = @ + 1]
            IN  [r EXCEPT !.ss = s3, !.chat_calls = @ + 1]

\* Variant of ChatTurn whose fifth turn appends the answer without counting it
ChatTurn_FifthUncounted(r, t, prompt, resp) ==
    IF r.ss.user_message_count >= MaxUserTurns \/ prompt = NoPrompt THEN r
    ELSE
      LET v == validate_input(prompt, MaxAnswerChars)
          rate == check_rate_limit(r.ss, t)
          s1 == [r.ss EXCEPT !.last_request_time = DateTime(t),
                             !.messages = Append(@, [role |-> "user",
                                                      content |-> v.sanitized])]
      IN  IF ~v.is_valid THEN [r EXCEPT !.halted = TRUE]
          ELSE IF ~r.ss.last_request_time.datetime THEN [r EXCEPT !.halted = TRUE]
          ELSE IF ~rate.allowed THEN [r EXCEPT !.halted = TRUE]
          ELSE IF r.ss.user_message_count >= MaxAssistantTurns
          THEN [r EXCEPT !.ss = s1]
          ELSE IF ~resp.ok
          THEN [r EXCEPT !.ss = s1, !.halted = TRUE,
                         !.chat_calls = @ + 1, !.failed_turns = @ + 1]
          ELSE
            LET s2 == update_usage_metrics(s1, resp)
                s3 == [s2 EXCEPT !.messages = Append(@, [role |-> "assistant",
                                                          content |-> resp.content]),
                                 !.user_message_count = @ + 1]
            IN  [r EXCEPT !.ss = s3, !.chat_calls = @ + 1]

\* Lines 516-560: the chat input and the user turn.  check_rate_limit raises
\* TypeError (datetime minus str) when last_request_time came from a record.
ChatTurn(r, t, prompt, resp) ==
    IF r.ss.user_message_count >= MaxUserTurns \/ prompt = NoPrompt THEN r
    ELSE
      LET v == validate_input(prompt, MaxAnswerChars)
          rate == check_rate_limit(r.ss, t)
          s1 == [r.ss EXCEPT !.last_request_time = DateTime(t),
                             !.messages = Append(@, [role |-> "user",
                                                      content |-> v.sanitized])]
      IN  IF ~v.is_valid THEN [r EXCEPT !.halted = TRUE]
          ELSE IF ~r.ss.last_request_time.datetime THEN [r EXCEPT !.halted = TRUE]
          ELSE IF ~rate.allowed THEN [r EXCEPT !.halted = TRUE]
          ELSE IF r.ss.user_message_count >= MaxAssistantTurns
          THEN [r EXCEPT !.ss = [s1 EXCEPT !.user_message_count = @ + 1]]
          ELSE IF ~resp.ok
          THEN [r EXCEPT !.ss = s1, !.halted = TRUE,
                         !.chat_calls = @ + 1, !.failed_turns = @ + 1]
          ELSE
            LET s2 == update_usage_metrics(s1, resp)
                s3 == [s2 EXCEPT !.messages = Append(@, [role |-> "assistant",
                                                          content |-> resp.content]),
                                 !.user_message_count = @ + 1]
            IN  [r EXCEPT !.ss = s3, !.chat_calls = @ + 1]

\* Variant of ChatCompletion that completes one turn late (">" for ">=")
ChatCompletion_OffByOne(r, t, io) ==
    IF r.halted \/ r.ss.user_message_count <= MaxUserTurns THEN r
    ELSE
      LET s1 == [r.ss EXCEPT !.chat_complete = TRUE]
          saved == save_conversation(r.store, s1, t, io)
      IN  [r EXCEPT !.ss = s1, !.store = saved.store,
                    !.autosave_calls = @ + 1,
                    !.halted = (saved.raised = "TypeError")]

\* Variant of ChatCompletion that saves first and marks the interview
\* complete only when the save raised nothing
ChatCompletion_SaveFirst(r, t, io) ==
    IF r.halted \/ r.ss.user_message_count < MaxUserTurns THEN r
    ELSE
      LET s1 == [r.ss EXCEPT !.chat_complete = TRUE]
          saved == save_conversation(r.store, s1, t, io)
      IN  [r EXCEPT !.ss = IF saved.raised = "none" THEN s1 ELSE r.ss,
                    !.store = saved.store,
                    !.autosave_calls = @ + 1,
                    !.halted = (saved.raised = "TypeError")]

\* Lines 562-573: completion check and auto-save
ChatCompletion(r, t, io) ==
    IF r.halted \/ r.ss.user_message_count < MaxUserTurns THEN r
    ELSE
      LET s1 == [r.ss EXCEPT !.chat_complete = TRUE]
          saved == save_conversation(r.store, s1, t, io)
      IN  [r EXCEPT !.ss = s1, !.store = saved.store,
                    !.autosave_calls = @ + 1,
                    !.halted = (saved.raised = "TypeError")]

\* Variant of ChatBlock that never inserts the system prompt
ChatBlock_NoSystemPrompt(r, t, prompt, resp, io) ==
    IF \/ r.halted
       \/ ~(r.ss.setup_complete /\ ~r.ss.feedback_shown /\ ~r.ss.chat_complete)
    THEN r
    ELSE
      LET s0 == SetDefault(r.ss, "openai_model", "gpt-4o")
      IN  ChatCompletion(ChatTurn([r EXCEPT !.ss = s0], t, prompt, resp), t, io)

\* Chat block, lines 481-573
ChatBlock(r, t, prompt, resp, io) ==
    IF \/ r.halted
       \/ ~(r.ss.setup_complete /\ ~r.ss.feedback_shown /\ ~r.ss.chat_complete)
    THEN r
    ELSE
      LET s0 == SetDefault(r.ss, "openai_model", "gpt-4o")
          s1 == IF s0.messages = <<>>
                THEN [s0 EXCEPT !.messages = <<SystemMessage(s0)>>]
                ELSE s0
      IN  ChatCompletion(ChatTurn([r EXCEPT !.ss = s1], t, prompt, resp), t, io)

\* Variant of FeedbackBlock without the "feedback_text not in session_state" test
FeedbackBlock_Overwrite(r, t, resp, io) ==
    IF r.halted \/ ~r.ss.feedback_shown THEN r
    ELSE IF ~resp.ok
    THEN [r EXCEPT !.halted = TRUE, !.feedback_calls = @ + 1]
    ELSE
      LET s1 == update_usage_metrics(r.ss, resp)
          s2 == Put(s1, "feedback_text", resp.content)
          saved == save_conversation(r.store, s2, t, io)
      IN  [r EXCEPT !.ss = s2, !.store = saved.store,
                    !.feedback_calls = @ + 1,
                    !.halted = (saved.raised = "TypeError")]

\* Feedback block, lines 581-636
FeedbackBlock(r, t, resp, io) ==
    IF r.halted \/ ~r.ss.feedback_shown THEN r
    ELSE IF ~resp.ok
    THEN [r EXCEPT !.halted = TRUE, !.feedback_calls = @ + 1]
    ELSE
      LET s1 == update_usage_metrics(r.ss, resp)
          s2 == Put(s1, "feedback_text", resp.content)
          saved == save_conversation(r.store, s2, t, io)
      IN  IF Has(s1, "feedback_text")
          THEN [r EXCEPT !.ss = s1, !.feedback_calls = @ + 1]
          ELSE [r EXCEPT !.ss = s2, !.store = saved.store,
                         !.feedback_calls = @ + 1,
                         !.halted = (saved.raised = "TypeError")]

\* The script from line 378 to its end
MainRun(r, t, edit, prompt, resp, io) ==
    FeedbackBlock(ChatBlock(SetupBlock(r, edit), t, prompt, resp, io), t, resp, io)

\* The state a run leaves behind
Commit(r) ==
    /\ session_state' = r.ss
    /\ store' = r.store
    /\ chat_calls' = r.chat_calls
    /\ feedback_calls' = r.feedback_calls
    /\ autosave_calls' = r.autosave_calls
    /\ failed_turns' = r.failed_turns

\* A run may issue the evaluation call only while the model's bound allows it
WithinBounds(r) == r.feedback_calls <= MaxFeedbackCalls

\* ------------------------------------------------------------------------
\* Initial state: a new browser session, its session state as lines 37-58
\* leave it, an empty saved_conversations directory.
\* ------------------------------------------------------------------------
Init ==
    /\ now = 0
    /\ session_state = InitialSessionState(now)
    /\ store = [f \in {} |-> PartialJson]
    /\ app_password \in {"none", "pw"}
    /\ session = 1
    /\ chat_calls = 0
    /\ feedback_calls = 0
    /\ autosave_calls = 0
    /\ failed_turns = 0

\* ------------------------------------------------------------------------
\* Actions: one user interaction and the script run it triggers
\* ------------------------------------------------------------------------
\* The clock advances
Tick ==
    /\ now < MaxTime
    /\ now' = now + 1
    /\ UNCHANGED <<session_state, store, app_password, session,
                   chat_calls, feedback_calls, autosave_calls, failed_turns>>

\* authenticate_user(), lines 214-245 and 276-279: the first run of a session
\* without configured password, or an "Access App" click with a password.
AuthenticateUser ==
    /\ ~session_state.authenticated
    /\ \E password \in Passwords, resp \in FeedbackResponses, io \in IoOutcomes :
          IF app_password = "none" \/ password = app_password
          THEN LET r == MainRun([RunStart EXCEPT !.ss.authenticated = TRUE],
                                now, <<>>, NoPrompt, resp, io)
               IN  WithinBounds(r) /\ Commit(r)
          ELSE UNCHANGED <<session_state, store, chat_calls, feedback_calls,
                           autosave_calls, failed_turns>>
    /\ UNCHANGED <<now, app_password, session>>

\* The user changes the name, experience or skills widget (lines 391-414)
EditProfile ==
    /\ session_state.authenticated
    /\ ~session_state.setup_complete
    /\ \E field \in ProfileFields, text \in ProfileTexts,
          resp \in FeedbackResponses, io \in IoOutcomes :
          LET r == MainRun(RunStart, now, <<field, text>>, NoPrompt, resp, io)
          IN  WithinBounds(r) /\ Commit(r)
    /\ UNCHANGED <<now, app_password, session>>

\* Lines 454-460: the Start Interview button is disabled while a field is blank
validation_errors(s) ==
    {f \in ProfileFields : Strip(s[f]) = <<>>}

\* A click on "Start Interview" (line 475): complete_setup() runs, then the
\* script.  The button is only on the page when the previous run passed the
\* quota gate of lines 463-467 and is only enabled without validation errors.
StartInterview ==
    /\ session_state.authenticated
    /\ ~session_state.setup_complete
    /\ \A f \in ProfileFields : Has(session_state, f)
    /\ check_usage_quota(session_state).allowed
    /\ validation_errors(session_state) = {}
    /\ \E resp \in FeedbackResponses, io \in IoOutcomes :
          LET r == MainRun([RunStart EXCEPT !.ss = complete_setup(@)],
                           now, <<>>, NoPrompt, resp, io)
          IN  WithinBounds(r) /\ Commit(r)
    /\ UNCHANGED <<now, app_password, session>>

\* The user submits an answer in the chat input (line 517)
SubmitAnswerWith(prompt, resp, io) ==
    /\ session_state.authenticated
    /\ session_state.setup_complete
    /\ ~session_state.feedback_shown
    /\ ~session_state.chat_complete
    /\ session_state.user_message_count < MaxUserTurns
    /\ LET r == MainRun(RunStart, now, <<>>, prompt, resp, io)
       IN  /\ Len(r.ss.messages) <= MaxTranscript
           /\ WithinBounds(r)
           /\ Commit(r)
    /\ UNCHANGED <<now, app_password, session>>

SubmitAnswer ==
    \E prompt \in Prompts, resp \in ChatResponses, io \in IoOutcomes :
        SubmitAnswerWith(prompt, resp, io)

\* Variant of GetFeedback whose button is drawn before the chat is complete
GetFeedback_NoGuard ==
    /\ session_state.authenticated
    /\ ~session_state.feedback_shown
    /\ \E resp \in FeedbackResponses, io \in IoOutcomes :
          LET r == MainRun([RunStart EXCEPT !.ss = show_feedback(@)],
                           now, <<>>, NoPrompt, resp, io)
          IN  WithinBounds(r) /\ Commit(r)
    /\ UNCHANGED <<now, app_password, session>>

\* A click on "Get feedback" (line 577): show_feedback() runs, then the script
GetFeedbackWith(resp, io) ==
    /\ session_state.authenticated
    /\ session_state.chat_complete
    /\ ~session_state.feedback_shown
    /\ LET r == MainRun([RunStart EXCEPT !.ss = show_feedback(@)],
                        now, <<>>, NoPrompt, resp, io)
       IN  WithinBounds(r) /\ Commit(r)
    /\ UNCHANGED <<now, app_password, session>>

GetFeedback ==
    \E resp \in FeedbackResponses, io \in IoOutcomes : GetFeedbackWith(resp, io)

\* Any other interaction (a sidebar selector, the delete check box, a
\* download, an answer typed into a chat input that is no longer executed):
\* the script runs with no button pressed.
RerunWith(resp, io) ==
    /\ session_state.authenticated
    /\ LET r == MainRun(RunStart, now, <<>>, NoPrompt, resp, io)
       IN  WithinBounds(r) /\ Commit(r)
    /\ UNCHANGED <<now, app_password, session>>

Rerun ==
    \E resp \in FeedbackResponses, io \in IoOutcomes : RerunWith(resp, io)

\* Lines 316-326: "Load Selected Conversation".  A readable record replaces
\* the keys it holds and st.rerun() restarts the script; an unreadable one
\* raises JSONDecodeError, which is caught, and the run goes on.
\* load_conversation(filename), lines 82-93: the parsed record or the
\* exception raised
load_conversation(files, filename) ==
    IF filename \notin DOMAIN files
    THEN [raised |-> "FileNotFoundError"]
    ELSE IF ~IsValidJson(files[filename])
    THEN [raised |-> "JSONDecodeError"]
    ELSE [raised |-> "none", data |-> files[filename]]

restore_session(s, loaded_data) ==
    [k \in DOMAIN s \cup DOMAIN loaded_data |->
        IF k \in DOMAIN loaded_data THEN loaded_data[k] ELSE s[k]]

LoadConversationWith(selected_file, resp, io) ==
    /\ session_state.authenticated
    /\ selected_file \in get_saved_conversations(store)
    /\ LET loaded == load_conversation(store, selected_file)
           s1 == IF loaded.raised = "none"
                 THEN restore_session(session_state, loaded.data)
                 ELSE session_state
           r == MainRun([RunStart EXCEPT !.ss = s1], now, <<>>, NoPrompt, resp, io)
       IN  WithinBounds(r) /\ Commit(r)
    /\ UNCHANGED <<now, app_password, session>>

LoadConversation ==
    \E selected_file \in get_saved_conversations(store),
       resp \in FeedbackResponses, io \in IoOutcomes :
        LoadConversationWith(selected_file, resp, io)

\* Lines 337-344: the Delete button.  unlink() removes the file and
\* st.rerun() restarts the script; an OSError is caught and the run goes on.
unlink(files, file) == [f \in DOMAIN files \ {file} |-> files[f]]

DeleteConversationWith(file_to_delete, unlinked, resp, io) ==
    /\ session_state.authenticated
    /\ file_to_delete \in get_saved_conversations(store)
    /\ LET files == IF unlinked = "ok" THEN unlink(store, file_to_delete) ELSE store
           r == MainRun([RunStart EXCEPT !.store = files],
                        now, <<>>, NoPrompt, resp, io)
       IN  WithinBounds(r) /\ Commit(r)
    /\ UNCHANGED <<now, app_password, session>>

DeleteConversation ==
    \E file_to_delete \in get_saved_conversations(store),
       unlinked \in IoOutcomes, resp \in FeedbackResponses, io \in IoOutcomes :
        DeleteConversationWith(file_to_delete, unlinked, resp, io)

\* Lines 635-636: "Restart Interview" reloads the page, which starts a new
\* browser session with a new st.session_state.  The button is drawn by a
\* run that got through the feedback block, so feedback_text is set.
RestartInterview ==
    /\ session_state.authenticated
    /\ session_state.feedback_shown
    /\ Has(session_state, "feedback_text")
    /\ session < MaxSessions
    /\ session_state' = InitialSessionState(now)
    /\ session' = session + 1
    /\ chat_calls' = 0
    /\ feedback_calls' = 0
    /\ autosave_calls' = 0
    /\ failed_turns' = 0
    /\ UNCHANGED <<store, now, app_password>>

Next ==
    \/ Tick
    \/ AuthenticateUser
    \/ EditProfile
    \/ StartInterview
    \/ SubmitAnswer
    \/ GetFeedback
    \/ Rerun
    \/ LoadConversation
    \/ DeleteConversation
    \/ RestartInterview

Spec == Init /\ [][Next]_vars

\* The quota gate of the setup block only matters to a session that is in
\* setup with used-up counters.  SpecQuota starts sessions with the usage
\* counters at chosen values, as the scenario "completeSetup() called with
\* totalInterviews=10" does, and runs the same actions.
InitQuota ==
    /\ now = 0
    /\ \E usage \in { <<0, 0>>,
                     <<MAX_INTERVIEWS_PER_USER - 1, MAX_TOTAL_TOKENS - 1>>,
                     <<MAX_INTERVIEWS_PER_USER, 0>>,
                     <<0, MAX_TOTAL_TOKENS>> } :
          session_state = [InitialSessionState(now) EXCEPT
                              !.total_interviews = usage[1],
                              !.total_tokens_used = usage[2]]
    /\ store = [f \in {} |-> PartialJson]
    /\ app_password \in {"none", "pw"}
    /\ session = 1
    /\ chat_calls = 0
    /\ feedback_calls = 0
    /\ autosave_calls = 0
    /\ failed_turns = 0

SpecQuota == InitQuota /\ [][Next]_vars

\* ------------------------------------------------------------------------
\* Readable records.  save_conversation as it stands leaves only truncated
\* files, so in Spec no load ever restores anything.  SpecRecords starts
\* with two readable records of an earlier interview in the directory: the
\* session state at the two places that call save_conversation (line 569,
\* interview complete, and line 629, feedback stored), as text of the form
\* json.dumps(dict(st.session_state), default=str) of line 368 gives it.
\* ------------------------------------------------------------------------
\* json.dumps(..., default=str), then json.load: the datetime comes back as text
JsonText(s) ==
    [k \in DOMAIN s |-> IF k = "last_request_time" THEN TimeText(s[k].t) ELSE s[k]]

EarlierStart == 0 - 30
EarlierUsage == [ok |-> TRUE, content |-> <<"question">>,
                 prompt_tokens |-> 1000, completion_tokens |-> 500]
EarlierProfile ==
    [InitialSessionState(EarlierStart) EXCEPT !.authenticated = TRUE]
        @@ [name |-> <<"Bob">>, experience |-> <<"Bob">>, skills |-> <<"Bob">>]

\* The earlier session after its first k answers, each sent when the
\* cooldown had just elapsed
RECURSIVE EarlierRun(_)
EarlierRun(k) ==
    IF k = 0
    THEN MainRun([ss |-> complete_setup(EarlierProfile),
                  store |-> [f \in {} |-> PartialJson], halted |-> FALSE,
                  chat_calls |-> 0, feedback_calls |-> 0,
                  autosave_calls |-> 0, failed_turns |-> 0],
                 EarlierStart, <<>>, NoPrompt, EarlierUsage, "oserror")
    ELSE MainRun([EarlierRun(k - 1) EXCEPT !.halted = FALSE],
                 EarlierStart + REQUEST_COOLDOWN_SECONDS * (k - 1),
                 <<>>, <<"hi">>, EarlierUsage, "oserror")

EarlierComplete == EarlierRun(MaxUserTurns).ss
EarlierScored ==
    MainRun([EarlierRun(MaxUserTurns) EXCEPT !.halted = FALSE,
                                             !.ss = show_feedback(@)],
            EarlierStart + 15, <<>>, NoPrompt,
            [EarlierUsage EXCEPT !.content = <<"score7">>], "oserror").ss

RecordComplete == JsonText(EarlierComplete)
RecordScored == JsonText(EarlierScored)

\* The clock reading at which the session of SpecRecords opens
RecordsStart == 15

InitRecords ==
    /\ now = RecordsStart
    /\ session_state = InitialSessionState(now)
    /\ store = [f \in {FileName(EarlierStart + 12), FileName(EarlierStart + 15)} |->
                   IF f = FileName(EarlierStart + 12)
                   THEN RecordComplete ELSE RecordScored]
    /\ app_password \in {"none", "pw"}
    /\ session = 1
    /\ chat_calls = 0
    /\ feedback_calls = 0
    /\ autosave_calls = 0
    /\ failed_turns = 0

SpecRecords == InitRecords /\ [][Next]_vars

\* ------------------------------------------------------------------------
\* Progress.  In SpecLive the clock advances while a cooldown is running
\* (the user waits for it to end and submits again; a longer wait changes
\* no gate) and at most MaxFailedTurns completion calls of an interview
\* raise, which keeps the transcript within MaxTranscript.  The session is
\* followed to its end: a page reload (RestartInterview) starts another one.
\* The user who keeps submitting valid answers is the strong fairness of
\* AnsweredTurn: a turn that passes both gates and whose completion call,
\* where one is made, returns.
\* ------------------------------------------------------------------------
TickLive ==
    /\ ~check_rate_limit(session_state, now).allowed
    /\ now' = now + 1
    /\ UNCHANGED <<session_state, store, app_password, session,
                   chat_calls, feedback_calls, autosave_calls, failed_turns>>

SubmitAnswerLive ==
    \E prompt \in Prompts, resp \in ChatResponses, io \in IoOutcomes :
        /\ resp.ok \/ failed_turns < MaxFailedTurns
        /\ SubmitAnswerWith(prompt, resp, io)

AnsweredTurn ==
    \E prompt \in Prompts, resp \in ChatResponses, io \in IoOutcomes :
        /\ resp.ok
        /\ SubmitAnswerWith(prompt, resp, io)

NextLive ==
    \/ TickLive
    \/ AuthenticateUser
    \/ EditProfile
    \/ StartInterview
    \/ SubmitAnswerLive
    \/ GetFeedback
    \/ Rerun
    \/ LoadConversation
    \/ DeleteConversation

SpecLive ==
    /\ Init
    /\ [][NextLive]_vars
    /\ WF_vars(TickLive)
    /\ SF_vars(AnsweredTurn)

\* ------------------------------------------------------------------------
\* Properties
\* ------------------------------------------------------------------------
UserCount == CountRole(session_state.messages, "user")
AssistantCount == CountRole(session_state.messages, "assistant")
SameSession == session' = session

\* C1: once five user inputs have been accepted in an activated session,
\* exactly four ChatService calls were made for them, the interview is
\* COMPLETE and the auto-save was invoked exactly once.
C1_FiveTurnsScenario ==
    (session_state.setup_complete /\ UserCount = 5)
        => /\ chat_calls = 4
           /\ session_state.chat_complete
           /\ autosave_calls = 1

C3_AssistantReplies ==
    AssistantCount = IF session_state.user_message_count < 4
                     THEN session_state.user_message_count
                     ELSE 4

C3_Witness ==
    /\ session_state.user_message_count = 5
    /\ AssistantCount = 4
    /\ session_state.messages[Len(session_state.messages)].role = "user"

\* C4: a user turn whose ChatService call fails keeps its user message, adds
\* no assistant message and still increments userMessageCount by one.
C4_FailedTurnCounts ==
    [][ failed_turns' = failed_turns + 1
          => /\ session_state'.messages[Len(session_state'.messages)].role = "user"
             /\ CountRole(session_state'.messages, "assistant") = AssistantCount
             /\ session_state'.user_message_count
                   = session_state.user_message_count + 1 ]_vars

\* C5: the step from NOT_SETUP to ACTIVE increments totalInterviews by one
\* and leaves the transcript equal to [system message].
C5_StartCountsInterview ==
    [][ (~session_state.setup_complete /\ session_state'.setup_complete)
          => /\ session_state'.total_interviews = session_state.total_interviews + 1
             /\ session_state'.messages = <<SystemMessage(session_state')>> ]_vars

\* C6: once the feedback is there, no later operation of the session issues
\* another evaluation call or changes the usage counters.
C6_OneEvaluationCall ==
    [][ (session_state.feedback_shown /\ Has(session_state, "feedback_text")
           /\ SameSession)
          => /\ feedback_calls' = feedback_calls
             /\ session_state'.total_tokens_used = session_state.total_tokens_used
             /\ session_state'.estimated_cost = session_state.estimated_cost ]_vars

\* C7: feedbackText, once set, keeps the value first stored through every
\* later operation of the session, further evaluation calls included.
C7_FeedbackTextSetOnce ==
    [][ (Has(session_state, "feedback_text") /\ SameSession)
          => /\ Has(session_state', "feedback_text")
             /\ session_state'.feedback_text = session_state.feedback_text ]_vars

C7_Witness ==
    /\ Has(session_state, "feedback_text")
    /\ feedback_calls = 2
    /\ session_state.total_tokens_used = 6 * 25000

\* C8: once userMessageCount is 5 the session is COMPLETE and stays so
\* through every later operation short of a reset.
C8_CompleteIsStable ==
    [][ (session_state.user_message_count >= 5 /\ SameSession)
          => /\ session_state.chat_complete
             /\ session_state'.chat_complete
             /\ session_state'.user_message_count >= 5 ]_vars

C8_Witness ==
    /\ session_state.user_message_count = 5
    /\ session_state.chat_complete
    /\ session_state.feedback_shown
    /\ autosave_calls = 1
    /\ feedback_calls = 2
    /\ DOMAIN store = {}

\* C9: feedbackShown implies chatComplete, chatComplete implies
\* setupComplete, and userMessageCount >= 5 implies chatComplete.
C9_FlagInvariant ==
    /\ session_state.feedback_shown => session_state.chat_complete
    /\ session_state.chat_complete => session_state.setup_complete
    /\ session_state.user_message_count >= 5 => session_state.chat_complete

C9_Witness ==
    /\ session_state.feedback_shown
    /\ session_state.chat_complete
    /\ session_state.setup_complete
    /\ session_state.user_message_count >= 5
    /\ Has(session_state, "feedback_text")

\* C10: with totalInterviews >= MAX_INTERVIEWS or totalTokensUsed >=
\* MAX_TOKENS a session in setup stays in setup, whatever is attempted:
\* setupComplete stays false and no counter and no transcript changes.
QuotaUsedUp ==
    \/ session_state.total_interviews >= MAX_INTERVIEWS_PER_USER
    \/ session_state.total_tokens_used >= MAX_TOTAL_TOKENS

C10_SetupRefused ==
    [][ (~session_state.setup_complete /\ QuotaUsedUp /\ SameSession)
          => /\ ~session_state'.setup_complete
             /\ session_state'.total_interviews = session_state.total_interviews
             /\ session_state'.total_tokens_used = session_state.total_tokens_used
             /\ session_state'.estimated_cost = session_state.estimated_cost
             /\ session_state'.user_message_count = session_state.user_message_count
             /\ session_state'.messages = session_state.messages ]_vars

C10_Witness ==
    /\ session_state.authenticated
    /\ ~session_state.setup_complete
    /\ QuotaUsedUp
    /\ \A f \in ProfileFields : Has(session_state, f)
    /\ validation_errors(session_state) = {}

\* C11: a user input rejected by validate_input or by check_rate_limit
\* changes nothing: transcript, userMessageCount, lastRequestTimestamp,
\* totalTokensUsed and estimatedCost stay as they are and no ChatService
\* call is made.
Rejected(prompt) ==
    \/ ~validate_input(prompt, MaxAnswerChars).is_valid
    \/ ~check_rate_limit(session_state, now).allowed

C11_RejectionChangesNothing ==
    [][ \/ /\ session_state'.messages = session_state.messages
           /\ session_state'.user_message_count = session_state.user_message_count
           /\ session_state'.last_request_time = session_state.last_request_time
           /\ session_state'.total_tokens_used = session_state.total_tokens_used
           /\ session_state'.estimated_cost = session_state.estimated_cost
           /\ chat_calls' = chat_calls
        \/ ~session_state.setup_complete
        \/ session_state.chat_complete
        \/ session_state.feedback_shown
        \/ \A prompt \in Prompts, resp \in ChatResponses, io \in IoOutcomes :
              ~(Rejected(prompt) /\ SubmitAnswerWith(prompt, resp, io)) ]_vars

\* A session in which both kinds of rejection can happen: an answer was
\* accepted less than the cooldown ago and the chat input is still there.
C11_Witness ==
    /\ session_state.authenticated
    /\ session_state.setup_complete
    /\ ~session_state.chat_complete
    /\ session_state.user_message_count \in 1..4
    /\ ~check_rate_limit(session_state, now).allowed
    /\ \E prompt \in Prompts : ~validate_input(prompt, MaxAnswerChars).is_valid

\* C12: a request is accepted only when the cooldown has elapsed since
\* lastRequestTime, lastRequestTime becomes now on an accepted request and
\* changes on no other step; so two accepted requests lie at least
\* REQUEST_COOLDOWN_SECONDS apart.
C12_CooldownBetweenRequests ==
    [][ SameSession
          => IF UserCount' > UserCount
             THEN /\ now - session_state.last_request_time.t >= REQUEST_COOLDOWN_SECONDS
                  /\ session_state'.last_request_time = DateTime(now)
             ELSE session_state'.last_request_time = session_state.last_request_time ]_vars

C12_Witness ==
    /\ UserCount = 2
    /\ now = REQUEST_COOLDOWN_SECONDS
    /\ session_state.last_request_time = DateTime(now)

\* C13: every ChatService call is made only after the usage-policy layer
\* has passed for that request: a call for a user turn follows an accepted
\* (valid, not rate-limited) input, and the evaluation call too is only made
\* when the cooldown has elapsed and the quota is not used up.
C13_CallsAreGated ==
    [][ SameSession
          => /\ chat_calls' > chat_calls
                  => /\ check_rate_limit(session_state, now).allowed
                     /\ UserCount' = UserCount + 1
             /\ feedback_calls' > feedback_calls
                  => /\ check_rate_limit(session_state, now).allowed
                     /\ check_usage_quota(session_state).allowed ]_vars

\* A step that loads a readable record
LoadedStep ==
    \E selected_file \in DOMAIN store, resp \in FeedbackResponses, io \in IoOutcomes :
        /\ IsValidJson(store[selected_file])
        /\ LoadConversationWith(selected_file, resp, io)

CountersGrow ==
    /\ session_state'.user_message_count >= session_state.user_message_count
    /\ session_state'.total_interviews >= session_state.total_interviews
    /\ session_state'.total_tokens_used >= session_state.total_tokens_used

UsageKeys == {"total_tokens_used", "estimated_cost"}

ReachedSave ==
    \/ autosave_calls' > autosave_calls
    \/ /\ SameSession
       /\ ~Has(session_state, "feedback_text")
       /\ Has(session_state', "feedback_text")

\* A step whose save_conversation call opened its file for writing
WroteFile ==
    \/ \E prompt \in Prompts, resp \in ChatResponses : SubmitAnswerWith(prompt, resp, "ok")
    \/ \E resp \in FeedbackResponses : GetFeedbackWith(resp, "ok")
    \/ \E resp \in FeedbackResponses : RerunWith(resp, "ok")

C17_SaveLoadRoundTrip ==
    [][ /\ (ReachedSave /\ WroteFile)
            => /\ load_conversation(store', FileName(now)).raised = "none"
               /\ load_conversation(store', FileName(now)).data = session_state'
        /\ \A file_to_delete \in DOMAIN store, resp \in FeedbackResponses, io \in IoOutcomes :
              DeleteConversationWith(file_to_delete, "ok", resp, io)
                  => load_conversation(store', file_to_delete).raised = "FileNotFoundError" ]_vars

\* C18: a load of an unreadable record, or a delete that fails, changes no
\* field of the session and no stored file.
C18_FailedLoadChangesNothing ==
    [][ \/ (session_state' = session_state /\ store' = store)
        \/ /\ \A selected_file \in DOMAIN store, resp \in FeedbackResponses, io \in IoOutcomes :
                ~(/\ load_conversation(store, selected_file).raised # "none"
                  /\ LoadConversationWith(selected_file, resp, io))
           /\ \A file_to_delete \in DOMAIN store, resp \in FeedbackResponses, io \in IoOutcomes :
                ~DeleteConversationWith(file_to_delete, "oserror", resp, io) ]_vars

\* A step whose auto-save at completion left no readable record
AutoSaveFailed ==
    /\ autosave_calls' > autosave_calls
    /\ load_conversation(store', FileName(now)).raised # "none"

\* C19: a step whose auto-save at completion fails still ends with the
\* interview complete, keeps the fifth user message and the counters, and
\* leaves the "Get feedback" button available.
C19_FailedAutoSaveCompletes ==
    [][ AutoSaveFailed
          => /\ session_state'.chat_complete
             /\ session_state'.user_message_count = MaxUserTurns
             /\ session_state'.user_message_count = session_state.user_message_count + 1
             /\ Len(session_state'.messages) = Len(session_state.messages) + 1
             /\ SubSeq(session_state'.messages, 1, Len(session_state.messages))
                    = session_state.messages
             /\ session_state'.messages[Len(session_state'.messages)].role = "user"
             /\ session_state'.total_tokens_used = session_state.total_tokens_used
             /\ session_state'.estimated_cost = session_state.estimated_cost
             /\ session_state'.authenticated
             /\ session_state'.setup_complete
             /\ ~session_state'.feedback_shown ]_vars

\* The auto-save raised OSError (no file was written) and the evaluation was
\* then requested and stored
C19_Witness ==
    /\ autosave_calls = 1
    /\ session_state.chat_complete
    /\ session_state.user_message_count = MaxUserTurns
    /\ session_state.feedback_shown
    /\ Has(session_state, "feedback_text")
    /\ DOMAIN store = {}

\* C20: a non-empty transcript starts with its only system message, and
\* after it user and assistant messages alternate, starting with a user
\* message.
C20_TranscriptShape ==
    LET m == session_state.messages
    IN  Len(m) > 0
          => /\ m[1].role = "system"
             /\ CountRole(m, "system") = 1
             /\ \A i \in 2..Len(m) :
                    m[i].role = IF i % 2 = 0 THEN "user" ELSE "assistant"

\* C21: in an activated session whose totalTokensUsed has reached
\* MAX_TOTAL_TOKENS, a valid answer outside the cooldown is still accepted
\* (its user message is appended) and, for turns 1-4, ChatService is called
\* and its reply, when it gives one, is appended.
C21_QuotaDoesNotBlockTurns ==
    ( /\ session_state.authenticated
      /\ session_state.setup_complete
      /\ ~session_state.chat_complete
      /\ ~session_state.feedback_shown
      /\ session_state.user_message_count < MaxUserTurns
      /\ session_state.total_tokens_used >= MAX_TOTAL_TOKENS )
      => \A prompt \in Prompts, resp \in ChatResponses :
            ~Rejected(prompt)
              => LET r == MainRun(RunStart, now, <<>>, prompt, resp, "ok")
                 IN  /\ CountRole(r.ss.messages, "user") = UserCount + 1
                     /\ session_state.user_message_count < MaxAssistantTurns
                          => /\ r.chat_calls = chat_calls + 1
                             /\ resp.ok =>
                                  /\ CountRole(r.ss.messages, "assistant")
                                       = AssistantCount + 1
                                  /\ r.ss.user_message_count
                                       = session_state.user_message_count + 1

\* Three chat calls were answered and the third was made with the counter
\* already at MAX_TOTAL_TOKENS
C21_Witness ==
    /\ session_state.setup_complete
    /\ ~session_state.chat_complete
    /\ feedback_calls = 0
    /\ AssistantCount = 3
    /\ session_state.total_tokens_used = 3 * 25000
    /\ session_state.total_tokens_used > MAX_TOTAL_TOKENS

\* C22: the transcript never holds more than five user messages, whatever
\* operations came before, turns whose ChatService call failed included.
C22_AtMostFiveUserMessages ==
    UserCount <= MaxUserTurns

\* C23: an activated session in which the user keeps submitting valid
\* answers while time passes reaches COMPLETE with userMessageCount = 5,
\* whatever attempts are rate-limited and whichever completion calls raise.
C23_EventuallyComplete ==
    (session_state.setup_complete /\ ~session_state.chat_complete)
        ~> (session_state.chat_complete
              /\ session_state.user_message_count = MaxUserTurns)

\* An interview reached COMPLETE although one of its completion calls raised
C23_Witness ==
    /\ session_state.chat_complete
    /\ session_state.user_message_count = MaxUserTurns
    /\ failed_turns = MaxFailedTurns
    /\ UserCount = MaxUserTurns + MaxFailedTurns

====
